---- MODULE Spec2Model ----
(***************************************************************************)
(* Model of the Jira MCP server (class JiraServer, the version whose tool  *)
(* handlers go through makeJiraRequest).  One tool invocation is a         *)
(* sequence of steps separated by the awaits on remote requests: the Call  *)
(* actions run a handler up to its first request, the response actions run *)
(* it from one response to the next request or to its end.  The tracker is *)
(* the environment: every response is chosen nondeterministically.         *)
(*                                                                         *)
(* Text is a sequence of tokens: caller-supplied and tracker-supplied text *)
(* is a sequence of one-character strings, the fixed fragments of a        *)
(* template literal are one token each.                                    *)
(***************************************************************************)
EXTENDS Integers, Sequences, FiniteSets, TLC

VARIABLES jiraConfig, pc, name, args, sent, resp, delegated, result, codec,
          suspended

vars == <<jiraConfig, pc, name, args, sent, resp, delegated, result, codec,
          suspended>>

-----------------------------------------------------------------------------
(* Bounds of the model.                                                    *)

MaxTypes == 2
MaxTransitions == 2
MaxIssues == 1
MaxLen == 3
\* tool invocations in flight at once
MaxInvocations == 3

-----------------------------------------------------------------------------
(* JavaScript strings and values.                                          *)

\* An argument the caller left out (undefined).  No text equals it: text
\* supplied by callers is made of one-character tokens.
Absent == <<"<undefined>">>

\* if (x) on an optional string argument.
Truthy(s) == s # Absent /\ s # <<>>

\* ${x} inside a template literal.
Interp(s) == IF s = Absent THEN <<"undefined">> ELSE s

\* const { x = d } = args: the default replaces undefined only.
Default(s, d) == IF s = Absent THEN d ELSE s

UpperCase == <<"A","B","C","D","E","F","G","H","I","J","K","L","M",
               "N","O","P","Q","R","S","T","U","V","W","X","Y","Z">>
LowerCase == <<"a","b","c","d","e","f","g","h","i","j","k","l","m",
               "n","o","p","q","r","s","t","u","v","w","x","y","z">>

ToLowerChar(c) ==
  IF \E i \in 1..26 : UpperCase[i] = c
  THEN LowerCase[CHOOSE i \in 1..26 : UpperCase[i] = c]
  ELSE c

\* String.prototype.toLowerCase
ToLowerCase(s) == [i \in 1..Len(s) |-> ToLowerChar(s[i])]

RECURSIVE Join(_, _)
\* Array.prototype.join on an array of strings
Join(strs, sep) ==
  IF strs = <<>> THEN <<>>
  ELSE IF Len(strs) = 1 THEN strs[1]
  ELSE strs[1] \o sep \o Join(Tail(strs), sep)

\* Array.prototype.find over the indices whose element passes the test:
\* the first of them, 0 if there is none
First(hits) ==
  IF hits = {} THEN 0 ELSE CHOOSE i \in hits : \A j \in hits : i <= j

IsWhitespace(c) == c \in {" ", "\n", "\t"}

RECURSIVE TrimStart(_)
TrimStart(s) ==
  IF s # <<>> /\ IsWhitespace(Head(s)) THEN TrimStart(Tail(s)) ELSE s

RECURSIVE TrimEnd(_)
TrimEnd(s) ==
  IF s # <<>> /\ IsWhitespace(s[Len(s)])
  THEN TrimEnd(SubSeq(s, 1, Len(s) - 1)) ELSE s

RECURSIVE StripWhitespace(_)
StripWhitespace(s) ==
  IF s = <<>> THEN <<>>
  ELSE IF IsWhitespace(Head(s)) THEN StripWhitespace(Tail(s))
  ELSE <<Head(s)>> \o StripWhitespace(Tail(s))

\* Trim gone wrong: whitespace removed everywhere, not only at the ends
TrimEverywhere(s) == StripWhitespace(s)

\* String.prototype.trim removes whitespace from both ends
Trim(s) == TrimEnd(TrimStart(s))

\* s contains t as a contiguous run of tokens
Contains(s, t) ==
  \E i \in 0..(Len(s) - Len(t)) : SubSeq(s, i + 1, i + Len(t)) = t

\* JavaScript values whose shape the code probes are tagged records.
Undef == [t |-> "undef"]
Null == [t |-> "null"]
Str(s) == [t |-> "str", v |-> s]
Num(n) == [t |-> "num", v |-> n]
Arr(xs) == [t |-> "arr", v |-> xs]
Node(type, content, text) ==
  [t |-> "obj", type |-> type, content |-> content, text |-> text]

\* if (v) on a value
TruthyVal(v) ==
  CASE v.t \in {"undef", "null"} -> FALSE
    [] v.t = "str" -> v.v # <<>>
    [] v.t = "num" -> v.v # 0
    [] OTHER -> TRUE

\* v.type === lit
TypeIs(v, lit) == v.t = "obj" /\ v.type = lit

-----------------------------------------------------------------------------
(* Rich-text documents.                                                    *)

\* The document literal built for descriptions and comments: one doc, one
\* paragraph, one text node holding s (undefined when s was left out).
\* Doc gone wrong: the text is trimmed before it is wrapped
DocTrimmed(s) ==
  [t |-> "obj", type |-> "doc", version |-> 1,
   content |-> Arr(<<Node("paragraph",
                          Arr(<<Node("text", Undef,
                                     IF s = Absent THEN Undef
                                     ELSE Str(Trim(s)))>>),
                          Undef)>>),
   text |-> Undef]

Doc(s) ==
  [t |-> "obj", type |-> "doc", version |-> 1,
   content |-> Arr(<<Node("paragraph",
                          Arr(<<Node("text", Undef,
                                     IF s = Absent THEN Undef ELSE Str(s))>>),
                          Undef)>>),
   text |-> Undef]

NoDescription == <<"No description">>

Returned(s) == [threw |-> FALSE, v |-> s]
Threw(what) == [threw |-> TRUE, v |-> <<what>>]

\* for (const c of v): the elements iterated, for an iterable value
Elements(v) ==
  IF v.t = "arr" THEN v.v ELSE [i \in 1..Len(v.v) |-> Str(<<v.v[i]>>)]

Iterable(v) == v.t \in {"arr", "str"}

\* text += x
Appended(x) ==
  CASE x.t = "str" -> x.v
    [] x.t = "undef" -> <<"undefined">>
    [] x.t = "null" -> <<"null">>
    [] OTHER -> <<"[object]">>

RECURSIVE ParagraphText(_, _)
\* inner loop of extractDescription over the children of one paragraph
ParagraphText(children, text) ==
  IF children = <<>> THEN Returned(text)
  ELSE LET c == Head(children) IN
    IF c.t \in {"undef", "null"} THEN Threw("TypeError")
    ELSE ParagraphText(Tail(children),
                       IF TypeIs(c, "text") THEN text \o Appended(c.text)
                       ELSE text)

RECURSIVE DocumentText(_, _)
\* outer loop of extractDescription over the children of the document
DocumentText(children, text) ==
  IF children = <<>> THEN Returned(text)
  ELSE LET c == Head(children) IN
    IF c.t \in {"undef", "null"} THEN Threw("TypeError")
    ELSE IF TypeIs(c, "paragraph") /\ TruthyVal(c.content)
    THEN IF ~Iterable(c.content) THEN Threw("TypeError")
         ELSE LET p == ParagraphText(Elements(c.content), text) IN
              IF p.threw THEN p
              ELSE DocumentText(Tail(children), p.v \o <<"\n">>)
    ELSE DocumentText(Tail(children), text)

\* extractDescription gone wrong: only the end of the text is trimmed
extractDescriptionTrimEnd(description) ==
  IF ~TruthyVal(description) THEN Returned(NoDescription)
  ELSE IF TypeIs(description, "doc") /\ TruthyVal(description.content)
  THEN IF ~Iterable(description.content) THEN Threw("TypeError")
       ELSE LET d == DocumentText(Elements(description.content), <<>>) IN
            IF d.threw THEN d
            ELSE Returned(IF TrimEnd(d.v) # <<>> THEN TrimEnd(d.v)
                          ELSE NoDescription)
  ELSE IF description.t = "str" THEN Returned(description.v)
  ELSE Returned(NoDescription)

extractDescription(description) ==
  IF ~TruthyVal(description) THEN Returned(NoDescription)
  ELSE IF TypeIs(description, "doc") /\ TruthyVal(description.content)
  THEN IF ~Iterable(description.content) THEN Threw("TypeError")
       ELSE LET d == DocumentText(Elements(description.content), <<>>) IN
            IF d.threw THEN d
            ELSE Returned(IF Trim(d.v) # <<>> THEN Trim(d.v)
                          ELSE NoDescription)
  ELSE IF description.t = "str" THEN Returned(description.v)
  ELSE Returned(NoDescription)

-----------------------------------------------------------------------------
(* Sequences of bounded length.                                            *)

SeqsUpTo(S, n) == UNION {[1..k -> S] : k \in 0..n}

-----------------------------------------------------------------------------
(* What callers pass and what the tracker answers.                         *)

ProjectKey == <<"P","R","O","J">>
IssueKey == <<"P","R","O","J","-","1">>
NewIssueKey == <<"P","R","O","J","-","2">>

\* characters that stand for the non-ASCII characters of the source
CheckMark == "U+2705"
Bullet == "U+2022"
Arrow == "U+2192"

\* issueType = '...' and priority = 'Medium' in createIssue's destructuring
DefaultIssueType == <<"U+C791","U+C5C5">>
DefaultPriority == <<"M","e","d","i","u","m">>

NoLabels == Undef

\* every combination of the optional arguments when project and summary
\* are given; a call that leaves out project or summary passes the issue
\* type at most
CreateArgs ==
  {a \in [project : {Absent, ProjectKey},
          summary : {Absent, <<"F","i","x">>},
          description : {Absent, <<>>, <<"d">>},
          issueType : {Absent, <<"b","u","g">>, <<"E","p","i","c">>},
          priority : {Absent, <<>>, <<"h","i","g","h">>,
                      <<"U","r","g","e","n","t">>},
          assignee : {Absent, <<"a","@","x">>},
          labels : {NoLabels, Arr(<<<<"u","i">>>>)}] :
     (a.project = Absent \/ a.summary = Absent) =>
       /\ a.description = Absent /\ a.priority = Absent
       /\ a.assignee = Absent /\ a.labels = NoLabels}

PriorityValues ==
  <<[name |-> <<"H","i","g","h">>, id |-> "1"],
    [name |-> <<"M","e","d","i","u","m">>, id |-> "3"]>>

\* the priority entry of an issue type's field definitions: missing, present
\* without allowedValues, present with allowedValues
PriorityFields ==
  {[present |-> FALSE, hasAllowed |-> FALSE, allowedValues |-> <<>>],
   [present |-> TRUE, hasAllowed |-> FALSE, allowedValues |-> <<>>],
   [present |-> TRUE, hasAllowed |-> TRUE, allowedValues |-> PriorityValues]}

TypeId(n) ==
  CASE n = <<"B","u","g">> -> "10004"
    [] n = <<"B","U","G">> -> "10005"
    [] OTHER -> "10001"

TypeNames == {<<"B","u","g">>, <<"B","U","G">>, DefaultIssueType}

IssueTypes ==
  {[name |-> n, id |-> TypeId(n), priority |-> f] :
     n \in TypeNames, f \in PriorityFields}

\* response.data of GET /issue/createmeta: projects is empty or holds the
\* one project asked for, with its issue types
CreateMetas ==
  {[projects |-> <<>>]} \cup
  {[projects |-> <<[issuetypes |-> c]>>] : c \in SeqsUpTo(IssueTypes, MaxTypes)}

\* what axios rejects with: no response at all, a response whose body has
\* errorMessages, a response whose body has an empty errorMessages
RemoteErrors ==
  {[hasErrorMessages |-> FALSE, errorMessages |-> <<>>,
    message |-> <<"Network Error">>],
   [hasErrorMessages |-> TRUE,
    errorMessages |-> <<<<"Issue does not exist">>>>,
    message |-> <<"Request failed with status code 404">>],
   [hasErrorMessages |-> TRUE, errorMessages |-> <<>>,
    message |-> <<"Request failed with status code 400">>]}

-----------------------------------------------------------------------------
(* Requests, results and the tool-call handler's catch.                    *)

NoData == [t |-> "null"]

\* the axios config makeJiraRequest builds (the headers are the same for
\* every request of a process and are left out)
Request(method, endpoint, data) ==
  [method |-> method,
   url |-> jiraConfig.url \o <<"/rest/api/3">> \o endpoint,
   endpoint |-> endpoint,
   data |-> data]

\* what an awaited request settled with
Resolved(data) == [ok |-> TRUE, data |-> data, error |-> NoData]
Rejected(error) == [ok |-> FALSE, data |-> NoData, error |-> error]

\* searchIssues has not been called by another operation
NotDelegated == [called |-> FALSE]

NoResult == [status |-> "none", code |-> "none", text |-> <<>>]

\* return { content: [{ type: 'text', text }] }
Success(text) == [status |-> "ok", code |-> "none", text |-> text]

\* new Error(message)
Error(message) ==
  [hasErrorMessages |-> FALSE, errorMessages |-> <<>>, message |-> message]

\* a TypeError raised by the runtime
TypeError == Error(<<"TypeError">>)

\* error.response?.data?.errorMessages || error.message, interpolated: an
\* array is truthy even when empty and is rendered joined by commas
ErrorText(error) ==
  IF error.hasErrorMessages THEN Join(error.errorMessages, <<",">>)
  ELSE error.message

\* the catch of the tool-call handler
Failure(tool, error) ==
  [status |-> "error", code |-> "InternalError",
   text |-> <<"Error executing ", tool, ": ">> \o ErrorText(error)]

-----------------------------------------------------------------------------
(* createIssue                                                             *)

IssueTypeOf(a) == Default(a.issueType, DefaultIssueType)
PriorityOf(a) == Default(a.priority, DefaultPriority)
DescriptionOf(a) == Default(a.description, <<>>)

ProjectEndpoint(project) == <<"/project/">> \o Interp(project)

CreateMetaEndpoint(project) ==
  <<"/issue/createmeta?projectKeys=">> \o Interp(project)
    \o <<"&expand=projects.issuetypes.fields">>

\* FindIssueType gone wrong: the last match is taken, not the first
FindIssueTypeLast(issuetypes, issueType) ==
  LET hits == {i \in 1..Len(issuetypes) :
                 ToLowerCase(issuetypes[i].name) = ToLowerCase(issueType)}
  IN IF hits = {} THEN 0 ELSE CHOOSE i \in hits : \A j \in hits : j <= i

\* projectMeta.issuetypes.find(type => type.name.toLowerCase() ===
\* issueType.toLowerCase()): index of the match, 0 if none
FindIssueType(issuetypes, issueType) ==
  First({i \in 1..Len(issuetypes) :
           ToLowerCase(issuetypes[i].name) = ToLowerCase(issueType)})

\* IssueTypeNotFoundMessage gone wrong: the types listed by id
IssueTypeNotFoundMessageIds(issuetypes, issueType) ==
  <<"Issue type \"">> \o issueType \o <<"\" not found. Available types: ">>
    \o Join([i \in 1..Len(issuetypes) |-> <<issuetypes[i].id>>], <<", ">>)

IssueTypeNotFoundMessage(issuetypes, issueType) ==
  <<"Issue type \"">> \o issueType \o <<"\" not found. Available types: ">>
    \o Join([i \in 1..Len(issuetypes) |-> issuetypes[i].name], <<", ">>)

\* allowedPriorities.find(p => p.name.toLowerCase() ===
\* priority.toLowerCase())
FindPriority(allowedPriorities, priority) ==
  First({i \in 1..Len(allowedPriorities) :
           ToLowerCase(allowedPriorities[i].name) = ToLowerCase(priority)})

\* WithDescription gone wrong: a document is attached even for no text
WithDescriptionAlways(fields, description) ==
  fields @@ ("description" :> Doc(description))

\* WithDescription gone wrong: the test is for a given description, so an
\* empty one is encoded too
WithDescriptionDefined(fields, description) ==
  IF description # Absent
  THEN fields @@ ("description" :> Doc(description))
  ELSE fields

WithDescription(fields, description) ==
  IF Truthy(description)
  THEN fields @@ ("description" :> Doc(description))
  ELSE fields

\* WithResolvedPriority gone wrong: an unresolved priority is sent by name
WithPriorityOrName(fields, priorityField, priority) ==
  IF priorityField.present /\ Truthy(priority)
  THEN LET allowedPriorities ==
             IF priorityField.hasAllowed THEN priorityField.allowedValues
             ELSE <<>>
           i == FindPriority(allowedPriorities, priority)
       IN IF i # 0
          THEN fields @@ ("priority" :> [id |-> allowedPriorities[i].id])
          ELSE fields @@ ("priority" :> [name |-> priority])
  ELSE fields

WithResolvedPriority(fields, priorityField, priority) ==
  IF priorityField.present /\ Truthy(priority)
  THEN LET allowedPriorities ==
             IF priorityField.hasAllowed THEN priorityField.allowedValues
             ELSE <<>>
           i == FindPriority(allowedPriorities, priority)
       IN IF i # 0
          THEN fields @@ ("priority" :> [id |-> allowedPriorities[i].id])
          ELSE fields
  ELSE fields

WithAssignee(fields, assignee) ==
  IF Truthy(assignee)
  THEN fields @@ ("assignee" :> [emailAddress |-> assignee])
  ELSE fields

\* WithLabels gone wrong: an empty array of labels is left out
WithLabelsNonEmpty(fields, labels) ==
  IF labels.t = "arr" /\ labels.v # <<>>
  THEN fields @@ ("labels" :> labels.v) ELSE fields

\* labels && Array.isArray(labels)
WithLabels(fields, labels) ==
  IF labels.t = "arr" THEN fields @@ ("labels" :> labels.v) ELSE fields

\* issueData of createIssue
IssueData(a, issueTypeObj) ==
  [fields |->
    WithLabels(
      WithAssignee(
        WithResolvedPriority(
          WithDescription(
            [project |-> [key |-> a.project],
             summary |-> a.summary,
             issuetype |-> [id |-> issueTypeObj.id]],
            DescriptionOf(a)),
          issueTypeObj.priority, PriorityOf(a)),
        a.assignee),
      a.labels)]

CreatedText(a, issueKey) ==
  <<CheckMark, " Successfully created issue: **">> \o issueKey
    \o <<"**\n", "Summary: ">> \o Interp(a.summary)
    \o <<"\n", "Type: ">> \o IssueTypeOf(a)
    \o <<"\n", "Priority: ">> \o PriorityOf(a)
    \o <<"\n", "Project: ">> \o Interp(a.project)
    \o <<"\n", "URL: ">> \o jiraConfig.url \o <<"/browse/">> \o issueKey

\* createIssue up to its first await: the project fetch is sent whatever
\* the arguments are
CallCreateIssue ==
  /\ pc = "idle"
  /\ \E a \in CreateArgs :
       /\ args' = a
       /\ sent' = <<Request("GET", ProjectEndpoint(a.project), NoData)>>
  /\ name' = "jira_create_issue"
  /\ pc' = "create_project"
  /\ UNCHANGED <<jiraConfig, resp, delegated, result, codec, suspended>>

\* CreateIssueProjectFailed gone wrong: the tracker's error is passed on
CreateIssueProjectFailedRethrown ==
  /\ pc = "create_project"
  /\ \E e \in RemoteErrors :
       /\ resp' = Append(resp, Rejected(e))
       /\ result' = Failure(name, e)
  /\ pc' = "done"
  /\ UNCHANGED <<jiraConfig, name, args, sent, delegated, codec, suspended>>

\* the project fetch rejected: createIssue's own catch replaces the error
CreateIssueProjectFailed ==
  /\ pc = "create_project"
  /\ \E e \in RemoteErrors :
       /\ resp' = Append(resp, Rejected(e))
       /\ result' = Failure(name,
                      Error(<<"Project ">> \o Interp(args.project)
                              \o <<" not found or not accessible">>))
  /\ pc' = "done"
  /\ UNCHANGED <<jiraConfig, name, args, sent, delegated, codec, suspended>>

\* the project fetch resolved: the creation metadata is asked for
CreateIssueProjectFetched ==
  /\ pc = "create_project"
  /\ sent' = Append(sent, Request("GET", CreateMetaEndpoint(args.project),
                                  NoData))
  /\ resp' = Append(resp, Resolved(NoData))
  /\ pc' = "create_meta"
  /\ UNCHANGED <<jiraConfig, name, args, delegated, result, codec, suspended>>

\* CreateIssueMetaFetched gone wrong: an issue type that is not found is
\* posted by its requested name
CreateIssueMetaFetchedByName ==
  /\ pc = "create_meta"
  /\ \E data \in CreateMetas :
       /\ resp' = Append(resp, Resolved(data))
       /\ IF data.projects = <<>>
          THEN /\ result' = Failure(name,
                              Error(<<"Unable to get metadata for project ">>
                                      \o Interp(args.project)))
               /\ pc' = "done"
               /\ UNCHANGED sent
          ELSE LET issuetypes == data.projects[1].issuetypes
                   i == FindIssueType(issuetypes, IssueTypeOf(args))
               IN /\ sent' =
                       Append(sent,
                         Request("POST", <<"/issue">>,
                           IF i = 0
                           THEN [fields |->
                                  [project |-> [key |-> args.project],
                                   summary |-> args.summary,
                                   issuetype |->
                                     [name |-> IssueTypeOf(args)]]]
                           ELSE IssueData(args, issuetypes[i])))
                  /\ pc' = "create_post"
                  /\ UNCHANGED result
  /\ UNCHANGED <<jiraConfig, name, args, delegated, codec, suspended>>

\* the metadata fetch resolved: resolve the type, build issueData, post it
CreateIssueMetaFetched ==
  /\ pc = "create_meta"
  /\ \E data \in CreateMetas :
       /\ resp' = Append(resp, Resolved(data))
       /\ IF data.projects = <<>>
          THEN /\ result' = Failure(name,
                              Error(<<"Unable to get metadata for project ">>
                                      \o Interp(args.project)))
               /\ pc' = "done"
               /\ UNCHANGED sent
          ELSE LET issuetypes == data.projects[1].issuetypes
                   i == FindIssueType(issuetypes, IssueTypeOf(args))
               IN IF i = 0
                  THEN /\ result' =
                            Failure(name,
                              Error(IssueTypeNotFoundMessage(issuetypes,
                                                     IssueTypeOf(args))))
                       /\ pc' = "done"
                       /\ UNCHANGED sent
                  ELSE /\ sent' = Append(sent,
                                    Request("POST", <<"/issue">>,
                                            IssueData(args, issuetypes[i])))
                       /\ pc' = "create_post"
                       /\ UNCHANGED result
  /\ UNCHANGED <<jiraConfig, name, args, delegated, codec, suspended>>

\* the creation request resolved
CreateIssueCreated ==
  /\ pc = "create_post"
  /\ \E issueKey \in {NewIssueKey} :
       /\ resp' = Append(resp, Resolved([key |-> issueKey]))
       /\ result' = Success(CreatedText(args, issueKey))
  /\ pc' = "done"
  /\ UNCHANGED <<jiraConfig, name, args, sent, delegated, codec, suspended>>

\* RequestFailed gone wrong: a rejected transition request is caught and
\* the invocation goes on to its success text
RequestFailedSwallowed ==
  /\ pc \in {"create_meta", "create_post", "update_put", "transition_get",
            "transition_post", "comment_post", "search_get", "issue_get",
            "project_get", "transitions_get"}
  /\ \E e \in RemoteErrors :
       /\ resp' = Append(resp, Rejected(e))
       /\ result' = IF pc = "transition_post"
                    THEN Success(<<CheckMark,
                                   " Successfully transitioned issue **">>)
                    ELSE Failure(name, e)
  /\ pc' = "done"
  /\ UNCHANGED <<jiraConfig, name, args, sent, delegated, codec, suspended>>

\* RequestFailed gone wrong: a rejected request is sent once more before
\* the rejection is passed on
RequestFailedRetried ==
  /\ pc \in {"create_meta", "create_post", "update_put", "transition_get",
            "transition_post", "comment_post", "search_get", "issue_get",
            "project_get", "transitions_get"}
  /\ \E e \in RemoteErrors :
       /\ resp' = Append(resp, Rejected(e))
       /\ IF resp = <<>> \/ resp[Len(resp)].ok
          THEN /\ sent' = Append(sent, sent[Len(sent)])
               /\ pc' = pc
               /\ UNCHANGED result
          ELSE /\ result' = Failure(name, e)
               /\ pc' = "done"
               /\ UNCHANGED sent
  /\ UNCHANGED <<jiraConfig, name, args, delegated, codec, suspended>>

\* a request other than createIssue's project fetch rejected:
\* makeJiraRequest rethrows, no operation catches, the handler's catch wraps
RequestFailed ==
  /\ pc \in {"create_meta", "create_post", "update_put", "transition_get",
            "transition_post", "comment_post", "search_get", "issue_get",
            "project_get", "transitions_get"}
  /\ \E e \in RemoteErrors :
       /\ resp' = Append(resp, Rejected(e))
       /\ result' = Failure(name, e)
  /\ pc' = "done"
  /\ UNCHANGED <<jiraConfig, name, args, sent, delegated, codec, suspended>>

-----------------------------------------------------------------------------
(* updateIssue                                                             *)

UpdateArgs ==
  [issueKey : {IssueKey},
   summary : {Absent, <<>>, <<"F","i","x">>},
   description : {Absent, <<>>, <<"d">>},
   assignee : {Absent, <<"a","@","x">>},
   priority : {Absent, <<"U","r","g","e","n","t">>},
   labels : {NoLabels, Arr(<<>>), Arr(<<<<"u","i">>>>)},
   status : {Absent, <<"D","o","n","e">>}]

EmptyObject == [k \in {} |-> Undef]

IssueEndpoint(issueKey) == <<"/issue/">> \o Interp(issueKey)

\* WithSummary gone wrong: the key is set whether or not a summary came
WithSummaryAlways(fields, summary) == fields @@ ("summary" :> summary)

WithSummary(fields, summary) ==
  IF Truthy(summary) THEN fields @@ ("summary" :> summary) ELSE fields

\* WithPriorityName gone wrong: the name is checked against the known
\* priorities first, as createIssue does
WithPriorityNameChecked(fields, priority) ==
  IF Truthy(priority) /\ FindPriority(PriorityValues, priority) # 0
  THEN fields @@ ("priority" :> [name |-> priority])
  ELSE fields

WithPriorityName(fields, priority) ==
  IF Truthy(priority) THEN fields @@ ("priority" :> [name |-> priority])
  ELSE fields

\* updateData of updateIssue
UpdateData(a) ==
  [fields |->
    WithLabels(
      WithPriorityName(
        WithAssignee(
          WithDescription(WithSummary(EmptyObject, a.summary),
                          a.description),
          a.assignee),
        a.priority),
      a.labels)]

BrowseUrl(issueKey) == jiraConfig.url \o <<"/browse/">> \o Interp(issueKey)

UpdatedText(a) ==
  <<CheckMark, " Successfully updated issue: **">> \o Interp(a.issueKey)
    \o <<"**\n", "URL: ">> \o BrowseUrl(a.issueKey)

\* updateIssue up to its first await, or to its end when there is nothing
\* to write
CallUpdateIssue ==
  /\ pc = "idle"
  /\ \E a \in UpdateArgs :
       /\ args' = a
       /\ IF DOMAIN UpdateData(a).fields # {}
          THEN /\ sent' = <<Request("PUT", IssueEndpoint(a.issueKey),
                                    UpdateData(a))>>
               /\ pc' = "update_put"
               /\ UNCHANGED result
          ELSE /\ result' = Success(UpdatedText(a))
               /\ pc' = "done"
               /\ UNCHANGED sent
  /\ name' = "jira_update_issue"
  /\ UNCHANGED <<jiraConfig, resp, delegated, codec, suspended>>

\* the field write resolved
UpdateIssueWritten ==
  /\ pc = "update_put"
  /\ result' = Success(UpdatedText(args))
  /\ resp' = Append(resp, Resolved(NoData))
  /\ pc' = "done"
  /\ UNCHANGED <<jiraConfig, name, args, sent, delegated, codec, suspended>>

-----------------------------------------------------------------------------
(* transitionIssue and getTransitions                                      *)

TransitionArgs ==
  [issueKey : {IssueKey},
   status : {Absent, <<"d","o","n","e">>, <<"C","l","o","s","e","d">>}]

StatusNames == {<<"D","o","n","e">>, <<"D","O","N","E">>, <<"O","p","e","n">>}

TransitionId(to) ==
  CASE to = <<"D","o","n","e">> -> "31"
    [] to = <<"D","O","N","E">> -> "32"
    [] OTHER -> "11"

Transitions ==
  {[id |-> TransitionId(n), name |-> <<"G","o">>, to |-> [name |-> n]] :
     n \in StatusNames}

\* response.data of GET /issue/{key}/transitions
TransitionsData ==
  {[transitions |-> ts] : ts \in SeqsUpTo(Transitions, MaxTransitions)}

TransitionsEndpoint(issueKey) ==
  <<"/issue/">> \o Interp(issueKey) \o <<"/transitions">>

\* FindTransition gone wrong: the last match is taken, not the first
FindTransitionLast(transitions, status) ==
  LET hits == {i \in 1..Len(transitions) :
                 ToLowerCase(transitions[i].to.name) = ToLowerCase(status)}
  IN IF hits = {} THEN 0 ELSE CHOOSE i \in hits : \A j \in hits : j <= i

\* transitions.find(t => t.to.name.toLowerCase() === status.toLowerCase())
FindTransition(transitions, status) ==
  First({i \in 1..Len(transitions) :
           ToLowerCase(transitions[i].to.name) = ToLowerCase(status)})

\* StatusNotAvailableMessage gone wrong: the transitions listed by their
\* own name instead of their destination's
StatusNotAvailableMessageNames(transitions, status) ==
  <<"Status \"">> \o Interp(status)
    \o <<"\" not available. Available statuses: ">>
    \o Join([i \in 1..Len(transitions) |-> transitions[i].name], <<", ">>)

StatusNotAvailableMessage(transitions, status) ==
  <<"Status \"">> \o Interp(status)
    \o <<"\" not available. Available statuses: ">>
    \o Join([i \in 1..Len(transitions) |-> transitions[i].to.name],
            <<", ">>)

TransitionedText(a) ==
  <<CheckMark, " Successfully transitioned issue **">> \o Interp(a.issueKey)
    \o <<"** to **">> \o Interp(a.status)
    \o <<"**\n", "URL: ">> \o BrowseUrl(a.issueKey)

CallTransitionIssueRebased ==
  /\ pc = "idle"
  /\ \E a \in TransitionArgs :
       /\ args' = a
       /\ sent' = <<Request("GET", TransitionsEndpoint(a.issueKey), NoData)>>
  /\ name' = "jira_transition_issue"
  /\ pc' = "transition_get"
  /\ jiraConfig' = [jiraConfig EXCEPT !.url = <<"https://jira.test", "/">>]
  /\ UNCHANGED <<resp, delegated, result, codec, suspended>>

CallTransitionIssue ==
  /\ pc = "idle"
  /\ \E a \in TransitionArgs :
       /\ args' = a
       /\ sent' = <<Request("GET", TransitionsEndpoint(a.issueKey), NoData)>>
  /\ name' = "jira_transition_issue"
  /\ pc' = "transition_get"
  /\ UNCHANGED <<jiraConfig, resp, delegated, result, codec, suspended>>

\* the transitions fetch resolved: resolve the status, post the transition.
\* With status left out, the find callback calls toLowerCase on undefined as
\* soon as there is a transition to test.
TransitionIssueFetched ==
  /\ pc = "transition_get"
  /\ \E data \in TransitionsData :
       /\ resp' = Append(resp, Resolved(data))
       /\ IF args.status = Absent /\ data.transitions # <<>>
          THEN /\ result' = Failure(name, TypeError)
               /\ pc' = "done"
               /\ UNCHANGED sent
          ELSE LET i == FindTransition(data.transitions, args.status) IN
               IF i = 0
               THEN /\ result' =
                         Failure(name,
                           Error(StatusNotAvailableMessage(data.transitions,
                                                           args.status)))
                    /\ pc' = "done"
                    /\ UNCHANGED sent
               ELSE /\ sent' =
                         Append(sent,
                           Request("POST", TransitionsEndpoint(args.issueKey),
                             [transition |->
                                [id |-> data.transitions[i].id]]))
                    /\ pc' = "transition_post"
                    /\ UNCHANGED result
  /\ UNCHANGED <<jiraConfig, name, args, delegated, codec, suspended>>

\* the transition request resolved
TransitionIssueApplied ==
  /\ pc = "transition_post"
  /\ result' = Success(TransitionedText(args))
  /\ resp' = Append(resp, Resolved(NoData))
  /\ pc' = "done"
  /\ UNCHANGED <<jiraConfig, name, args, sent, delegated, codec, suspended>>

KeyArgs == [issueKey : {IssueKey}]

TransitionsText(a, transitions) ==
  LET Line(tr) == <<Bullet, " **">> \o tr.name \o <<"** ", Arrow, " ">>
                    \o tr.to.name
  IN <<"Available transitions for **">> \o Interp(a.issueKey)
       \o <<"**:\n\n">>
       \o Join([i \in 1..Len(transitions) |-> Line(transitions[i])],
               <<"\n">>)
       \o <<"\n\nURL: ">> \o BrowseUrl(a.issueKey)

CallGetTransitions ==
  /\ pc = "idle"
  /\ \E a \in KeyArgs :
       /\ args' = a
       /\ sent' = <<Request("GET", TransitionsEndpoint(a.issueKey), NoData)>>
  /\ name' = "jira_get_transitions"
  /\ pc' = "transitions_get"
  /\ UNCHANGED <<jiraConfig, resp, delegated, result, codec, suspended>>

GetTransitionsFetched ==
  /\ pc = "transitions_get"
  /\ \E data \in TransitionsData :
       /\ resp' = Append(resp, Resolved(data))
       /\ result' = Success(TransitionsText(args, data.transitions))
  /\ pc' = "done"
  /\ UNCHANGED <<jiraConfig, name, args, sent, delegated, codec, suspended>>

-----------------------------------------------------------------------------
(* addComment                                                              *)

CommentArgs ==
  [issueKey : {IssueKey},
   comment : {Absent, <<>>, <<"h","i">>, <<" ","*","x","*","\n">>}]

CommentedText(a) ==
  <<CheckMark, " Successfully added comment to issue: **">>
    \o Interp(a.issueKey) \o <<"**\n", "Comment: ">> \o Interp(a.comment)
    \o <<"\n", "URL: ">> \o BrowseUrl(a.issueKey)

CallAddComment ==
  /\ pc = "idle"
  /\ \E a \in CommentArgs :
       /\ args' = a
       /\ sent' = <<Request("POST",
                            IssueEndpoint(a.issueKey) \o <<"/comment">>,
                            [body |-> Doc(a.comment)])>>
  /\ name' = "jira_add_comment"
  /\ pc' = "comment_post"
  /\ UNCHANGED <<jiraConfig, resp, delegated, result, codec, suspended>>

AddCommentPosted ==
  /\ pc = "comment_post"
  /\ result' = Success(CommentedText(args))
  /\ resp' = Append(resp, Resolved(NoData))
  /\ pc' = "done"
  /\ UNCHANGED <<jiraConfig, name, args, sent, delegated, codec, suspended>>

-----------------------------------------------------------------------------
(* searchIssues and getProjectIssues                                       *)

NoNumber == [t |-> "undef", v |-> 0]

\* maxResults = 50 in the destructuring of searchIssues and getProjectIssues
DefaultMaxResults == 50

MaxResultsOf(m) == IF m.t = "undef" THEN Num(DefaultMaxResults) ELSE m

MaxResultsArgs == {NoNumber, Num(0), Num(5)}

SearchArgs ==
  [jql : {<<"s","t","a","t","u","s"," ","="," ","O","p","e","n">>},
   maxResults : MaxResultsArgs]

ProjectIssuesArgs ==
  [projectKey : {ProjectKey},
   maxResults : MaxResultsArgs,
   status : {Absent, <<>>, <<"D","o","n","e">>, <<"a","\"","b">>}]

\* encodeURIComponent, on the characters that occur in the queries of the
\* model: letters and digits are kept, the rest is percent-encoded
EncodeChar(c) ==
  CASE c = " " -> "%20"
    [] c = "=" -> "%3D"
    [] c = "\"" -> "%22"
    [] OTHER -> c

EncodeURIComponent(s) ==
  IF s = Absent THEN <<"undefined">>
  ELSE [i \in 1..Len(s) |-> EncodeChar(s[i])]

SearchEndpoint(a) ==
  <<"/search?jql=">> \o EncodeURIComponent(a.jql)
    \o <<"&maxResults=", ToString(a.maxResults.v)>>
    \o <<"&fields=summary,status,assignee,priority,created,updated,description">>

\* the issues of a search response, with the fields the projection reads
FoundIssues ==
  {[key |-> IssueKey,
    fields |-> [summary |-> <<"F","i","x">>,
                status |-> [name |-> <<"O","p","e","n">>],
                assignee |-> as, priority |-> pr]] :
     as \in {Absent, <<"A","n","n">>},
     pr \in {Absent, <<"H","i","g","h">>}}

SearchData == {[issues |-> is] : is \in SeqsUpTo(FoundIssues, MaxIssues)}

\* x?.displayName || fallback
OrElse(s, fallback) == IF Truthy(s) THEN s ELSE fallback

SearchText(issues) ==
  LET Block(issue) ==
        <<"**">> \o issue.key \o <<"**: ">> \o issue.fields.summary
          \o <<"\n", "Status: ">> \o issue.fields.status.name
          \o <<" | Assignee: ">>
          \o OrElse(issue.fields.assignee, <<"Unassigned">>)
          \o <<" | Priority: ">> \o OrElse(issue.fields.priority, <<"None">>)
          \o <<"\n", "URL: ">> \o BrowseUrl(issue.key) \o <<"\n">>
  IN <<"Found ", ToString(Len(issues)), " issues:\n\n">>
       \o Join([i \in 1..Len(issues) |-> Block(issues[i])], <<"\n">>)

\* the arguments searchIssues works with, after its destructuring
SearchCall(jql, maxResults) ==
  [jql |-> jql, maxResults |-> MaxResultsOf(maxResults)]

\* CallSearchIssues gone wrong: the search is posted with the query as body
CallSearchIssuesPosted ==
  /\ pc = "idle"
  /\ \E a \in SearchArgs :
       /\ args' = a
       /\ sent' = <<Request("POST", <<"/search">>,
                            SearchCall(a.jql, a.maxResults))>>
  /\ name' = "jira_search"
  /\ pc' = "search_get"
  /\ UNCHANGED <<jiraConfig, resp, delegated, result, codec, suspended>>

CallSearchIssues ==
  /\ pc = "idle"
  /\ \E a \in SearchArgs :
       /\ args' = a
       /\ sent' = <<Request("GET",
                            SearchEndpoint(SearchCall(a.jql, a.maxResults)),
                            NoData)>>
  /\ name' = "jira_search"
  /\ pc' = "search_get"
  /\ UNCHANGED <<jiraConfig, resp, delegated, result, codec, suspended>>

\* ProjectJql gone wrong: the status is not quoted
ProjectJqlUnquoted(a) ==
  <<"p","r","o","j","e","c","t"," ","="," ">> \o Interp(a.projectKey)
    \o (IF Truthy(a.status)
        THEN <<" ","A","N","D"," ","s","t","a","t","u","s"," ","="," ">>
               \o a.status
        ELSE <<>>)
    \o <<" ","O","R","D","E","R"," ","B","Y"," ",
         "c","r","e","a","t","e","d"," ","D","E","S","C">>

\* the query getProjectIssues builds
ProjectJql(a) ==
  <<"p","r","o","j","e","c","t"," ","="," ">> \o Interp(a.projectKey)
    \o (IF Truthy(a.status)
        THEN <<" ","A","N","D"," ","s","t","a","t","u","s"," ","="," ","\"">>
               \o a.status \o <<"\"">>
        ELSE <<>>)
    \o <<" ","O","R","D","E","R"," ","B","Y"," ",
         "c","r","e","a","t","e","d"," ","D","E","S","C">>

\* getProjectIssues: builds the query and calls searchIssues, which runs up
\* to its request
CallGetProjectIssues ==
  /\ pc = "idle"
  /\ \E a \in ProjectIssuesArgs :
       /\ args' = a
       /\ delegated' = [called |-> TRUE, jql |-> ProjectJql(a),
                        maxResults |-> MaxResultsOf(a.maxResults)]
       /\ sent' = <<Request("GET",
                      SearchEndpoint(
                        SearchCall(ProjectJql(a),
                                   MaxResultsOf(a.maxResults))),
                      NoData)>>
  /\ name' = "jira_get_project_issues"
  /\ pc' = "search_get"
  /\ UNCHANGED <<jiraConfig, resp, result, codec, suspended>>

\* the search resolved (for searchIssues called either way)
SearchIssuesFetched ==
  /\ pc = "search_get"
  /\ \E data \in SearchData :
       /\ resp' = Append(resp, Resolved(data))
       /\ result' = Success(SearchText(data.issues))
  /\ pc' = "done"
  /\ UNCHANGED <<jiraConfig, name, args, sent, delegated, codec, suspended>>

-----------------------------------------------------------------------------
(* getIssue and getProjectInfo                                             *)

Paragraph(texts) ==
  Node("paragraph", Arr([i \in 1..Len(texts) |->
                           Node("text", Undef, Str(texts[i]))]), Undef)

\* fields.description of a fetched issue: the shapes extractDescription
\* tells apart
Descriptions ==
  {Undef, Null, Str(<<>>), Str(<<"d">>), Num(7),
   Doc(<<"d">>), Doc(<<" ","d">>), Doc(<<" ">>),
   Node("doc", Undef, Undef),
   Node("doc", Arr(<<>>), Undef),
   Node("doc", Num(7), Undef),
   Node("doc", Str(<<"d">>), Undef),
   Node("doc", Arr(<<Null>>), Undef),
   Node("doc", Arr(<<Str(<<"d">>)>>), Undef),
   Node("doc", Arr(<<Node("paragraph", Arr(<<Null>>), Undef)>>), Undef),
   Node("doc", Arr(<<Node("paragraph", Num(7), Undef)>>), Undef),
   Node("doc", Arr(<<Node("paragraph", Undef, Undef)>>), Undef),
   Node("doc", Arr(<<Node("heading", Arr(<<Node("text", Undef,
                                               Str(<<"h">>))>>), Undef),
                     Paragraph(<<<<"a">>, <<"b">>>>),
                     Paragraph(<<<<"c">>>>)>>), Undef),
   Node("doc", Arr(<<Paragraph(<<<<" ", "a">>>>),
                     Paragraph(<<<<"b", " ">>>>)>>), Undef),
   Node("doc", Arr(<<Paragraph(<<>>), Paragraph(<<<<"c">>>>)>>), Undef),
   Node("doc", Arr(<<Node("paragraph",
                          Arr(<<Node("text", Undef, Str(<<"a">>)),
                                Node("hardBreak", Undef, Undef),
                                Node("text", Undef, Str(<<"b">>))>>),
                          Undef)>>), Undef),
   Node("panel", Arr(<<Paragraph(<<<<"a">>>>)>>), Undef)}

IssueData1 ==
  {[key |-> IssueKey,
    fields |-> [summary |-> <<"F","i","x">>,
                description |-> d,
                status |-> [name |-> <<"O","p","e","n">>],
                assignee |-> Absent,
                priority |-> <<"H","i","g","h">>,
                issuetype |-> [name |-> <<"B","u","g">>],
                created |-> <<"2024-01-01">>,
                updated |-> <<"2024-01-02">>,
                labels |-> l]] :
     d \in Descriptions,
     l \in {NoLabels, Arr(<<>>), Arr(<<<<"u","i">>, <<"x">>>>)}}

LabelsText(labels) ==
  IF labels.t = "arr" /\ Join(labels.v, <<", ">>) # <<>>
  THEN Join(labels.v, <<", ">>) ELSE <<"None">>

IssueText(issue, description) ==
  <<"**">> \o issue.key \o <<"**: ">> \o issue.fields.summary
    \o <<"\n\n", "**Description**: ">> \o description
    \o <<"\n", "**Status**: ">> \o issue.fields.status.name
    \o <<"\n", "**Assignee**: ">>
    \o OrElse(issue.fields.assignee, <<"Unassigned">>)
    \o <<"\n", "**Priority**: ">> \o OrElse(issue.fields.priority, <<"None">>)
    \o <<"\n", "**Type**: ">> \o issue.fields.issuetype.name
    \o <<"\n", "**Labels**: ">> \o LabelsText(issue.fields.labels)
    \o <<"\n", "**Created**: ">> \o issue.fields.created
    \o <<"\n", "**Updated**: ">> \o issue.fields.updated
    \o <<"\n", "**URL**: ">> \o BrowseUrl(issue.key)

CallGetIssue ==
  /\ pc = "idle"
  /\ \E a \in KeyArgs :
       /\ args' = a
       /\ sent' = <<Request("GET", IssueEndpoint(a.issueKey), NoData)>>
  /\ name' = "jira_get_issue"
  /\ pc' = "issue_get"
  /\ UNCHANGED <<jiraConfig, resp, delegated, result, codec, suspended>>

\* the issue fetch resolved: decode the description, render
GetIssueFetched ==
  /\ pc = "issue_get"
  /\ \E issue \in IssueData1 :
       /\ resp' = Append(resp, Resolved(issue))
       /\ LET description == extractDescription(issue.fields.description) IN
          result' = IF description.threw THEN Failure(name, TypeError)
                    ELSE Success(IssueText(issue, description.v))
  /\ pc' = "done"
  /\ UNCHANGED <<jiraConfig, name, args, sent, delegated, codec, suspended>>

ProjectArgs == [projectKey : {ProjectKey}]

ProjectData ==
  {[name |-> <<"D","e","m","o">>, key |-> ProjectKey,
    description |-> d, lead |-> l, projectTypeKey |-> <<"software">>] :
     d \in {Absent, <<>>, <<"d">>}, l \in {Absent, <<"A","n","n">>}}

ProjectText(project) ==
  <<"**Project**: ">> \o project.name \o <<" (">> \o project.key
    \o <<")\n", "**Description**: ">>
    \o OrElse(project.description, NoDescription)
    \o <<"\n", "**Lead**: ">> \o OrElse(project.lead, <<"No lead assigned">>)
    \o <<"\n", "**Project Type**: ">> \o project.projectTypeKey
    \o <<"\n", "**URL**: ">> \o jiraConfig.url \o <<"/projects/">>
    \o project.key

CallGetProjectInfo ==
  /\ pc = "idle"
  /\ \E a \in ProjectArgs :
       /\ args' = a
       /\ sent' = <<Request("GET", ProjectEndpoint(a.projectKey), NoData)>>
  /\ name' = "jira_get_project_info"
  /\ pc' = "project_get"
  /\ UNCHANGED <<jiraConfig, resp, delegated, result, codec, suspended>>

GetProjectInfoFetched ==
  /\ pc = "project_get"
  /\ \E project \in ProjectData :
       /\ resp' = Append(resp, Resolved(project))
       /\ result' = Success(ProjectText(project))
  /\ pc' = "done"
  /\ UNCHANGED <<jiraConfig, name, args, sent, delegated, codec, suspended>>

-----------------------------------------------------------------------------
(* The default branch of the tool-call handler's switch.                   *)

KnownTools ==
  {"jira_search", "jira_get_issue", "jira_create_issue", "jira_update_issue",
   "jira_transition_issue", "jira_add_comment", "jira_get_project_info",
   "jira_get_project_issues", "jira_get_transitions"}

\* names a caller may try that the switch has no case for
OtherTools ==
  {"search_issues", "get_issue", "create_issue", "update_issue",
   "add_comment", "get_project_info", "transition_issue",
   "get_project_issues", "get_transitions", "jira_delete_issue"}

\* new McpError(ErrorCode.MethodNotFound, ...), thrown inside the try and so
\* caught by the handler's own catch
CallUnknownTool ==
  /\ pc = "idle"
  /\ \E n \in OtherTools :
       /\ n \notin KnownTools
       /\ name' = n
       /\ result' = Failure(n, Error(<<"Unknown tool: ", n>>))
  /\ args' = <<>>
  /\ pc' = "done"
  /\ UNCHANGED <<jiraConfig, sent, resp, delegated, codec, suspended>>

\* the transport delivers the result; the server waits for the next call
Return ==
  /\ pc = "done"
  /\ pc' = "idle"
  /\ name' = "none"
  /\ args' = <<>>
  /\ sent' = <<>>
  /\ resp' = <<>>
  /\ delegated' = NotDelegated
  /\ result' = NoResult
  /\ UNCHANGED <<jiraConfig, codec, suspended>>

-----------------------------------------------------------------------------
(* The rich-text codec on its own: a value is decoded as getIssue decodes   *)
(* a description, and a text is first encoded as createIssue, updateIssue   *)
(* and addComment encode one.                                               *)

TextChars == {"a", "b", " ", "\n"}

PlainTexts == SeqsUpTo(TextChars, MaxLen)

CodecInputs == {Str(s) : s \in PlainTexts} \cup Descriptions

CodecOff == [pc |-> "off"]

\* if (description) { ... description = { type: 'doc', ... } }
CodecEncode ==
  /\ codec.pc = "input"
  /\ codec.input.t = "str"
  /\ Truthy(codec.input.v)
  /\ codec' = [codec EXCEPT !.pc = "encoded", !.doc = Doc(codec.input.v)]
  /\ UNCHANGED <<jiraConfig, pc, name, args, sent, resp, delegated, result,
                 suspended>>

\* extractDescription applied to the encoded document
CodecDecodeEncoded ==
  /\ codec.pc = "encoded"
  /\ codec' = [codec EXCEPT !.pc = "decoded",
                            !.out = extractDescription(codec.doc)]
  /\ UNCHANGED <<jiraConfig, pc, name, args, sent, resp, delegated, result,
                 suspended>>

\* extractDescription applied to a value as it comes
CodecDecode ==
  /\ codec.pc = "input"
  /\ codec' = [codec EXCEPT !.pc = "decoded",
                            !.doc = codec.input,
                            !.out = extractDescription(codec.input)]
  /\ UNCHANGED <<jiraConfig, pc, name, args, sent, resp, delegated, result,
                 suspended>>

-----------------------------------------------------------------------------

\* the constructor: the connection config is read from the environment,
\* DEFAULT_PROJECT_KEY falling back to 'PROJ'
Init ==
  /\ jiraConfig \in
       [url : {<<"https://jira.test">>},
        username : {<<"me">>},
        apiToken : {<<"secret">>},
        defaultProject : {<<"P","R","O","J">>}]
  /\ pc = "idle"
  /\ name = "none"
  /\ args = <<>>
  /\ sent = <<>>
  /\ resp = <<>>
  /\ delegated = NotDelegated
  /\ result = NoResult
  /\ codec = CodecOff
  /\ suspended = <<>>

Next ==
  \/ CallCreateIssue
  \/ CreateIssueProjectFailed
  \/ CreateIssueProjectFetched
  \/ CreateIssueMetaFetched
  \/ CreateIssueCreated
  \/ CallUpdateIssue
  \/ UpdateIssueWritten
  \/ CallTransitionIssue
  \/ TransitionIssueFetched
  \/ TransitionIssueApplied
  \/ CallGetTransitions
  \/ GetTransitionsFetched
  \/ CallAddComment
  \/ AddCommentPosted
  \/ CallSearchIssues
  \/ CallGetProjectIssues
  \/ SearchIssuesFetched
  \/ CallGetIssue
  \/ GetIssueFetched
  \/ CallGetProjectInfo
  \/ GetProjectInfoFetched
  \/ CallUnknownTool
  \/ RequestFailed
  \/ Return

Spec == Init /\ [][Next]_vars

InitCodec ==
  /\ jiraConfig = [url |-> <<"https://jira.test">>, username |-> <<"me">>,
                   apiToken |-> <<"secret">>,
                   defaultProject |-> <<"P","R","O","J">>]
  /\ pc = "idle"
  /\ name = "none"
  /\ args = <<>>
  /\ sent = <<>>
  /\ resp = <<>>
  /\ delegated = NotDelegated
  /\ result = NoResult
  /\ codec \in [pc : {"input"}, input : CodecInputs, doc : {Undef},
                out : {Returned(<<>>)}]
  /\ suspended = <<>>

NextCodec ==
  \/ CodecEncode
  \/ CodecDecodeEncoded
  \/ CodecDecode

SpecCodec == InitCodec /\ [][NextCodec]_vars

-----------------------------------------------------------------------------
(* Invocations in flight together.  The handler is an async function: an   *)
(* invocation runs until its next await of a request and then yields, and  *)
(* the event loop resumes whichever invocation's request has settled, or   *)
(* starts a newly arrived one.  Every action above is one such run between *)
(* two awaits.  pc, name, args, sent, resp, delegated and result are the   *)
(* locals of the invocation that runs; suspended holds the locals of the   *)
(* others; jiraConfig belongs to the one server object they all share.     *)

\* the locals of the invocation that runs
Context ==
  [pc |-> pc, name |-> name, args |-> args, sent |-> sent, resp |-> resp,
   delegated |-> delegated, result |-> result]

\* the locals of an invocation that has not arrived yet
IdleContext ==
  [pc |-> "idle", name |-> "none", args |-> <<>>, sent |-> <<>>,
   resp |-> <<>>, delegated |-> NotDelegated, result |-> NoResult]

\* the running invocation is at an await (or has not started, or has
\* returned): the event loop turns to another one
Switch ==
  \E i \in 1..Len(suspended) :
    /\ pc' = suspended[i].pc
    /\ name' = suspended[i].name
    /\ args' = suspended[i].args
    /\ sent' = suspended[i].sent
    /\ resp' = suspended[i].resp
    /\ delegated' = suspended[i].delegated
    /\ result' = suspended[i].result
    /\ suspended' = [suspended EXCEPT ![i] = Context]
    /\ UNCHANGED <<jiraConfig, codec>>

\* the calls and responses the interleavings are explored with: an
\* operation of two requests (transitionIssue) and one of three (createIssue)
ConcurrentCallTransitionIssue ==
  /\ CallTransitionIssue
  /\ args'.status # Absent

ConcurrentTransitionIssueFetched ==
  /\ TransitionIssueFetched
  /\ \A i \in 1..Len(resp'[1].data.transitions) :
       /\ i = 1
       /\ resp'[1].data.transitions[i].to.name = <<"D","o","n","e">>

ConcurrentCallCreateIssue ==
  /\ CallCreateIssue
  /\ args' = [project |-> ProjectKey, summary |-> <<"F","i","x">>,
              description |-> Absent, issueType |-> <<"b","u","g">>,
              priority |-> Absent, assignee |-> Absent, labels |-> NoLabels]

ConcurrentCreateIssueMetaFetched ==
  /\ CreateIssueMetaFetched
  /\ \A p \in 1..Len(resp'[2].data.projects) :
       \A i \in 1..Len(resp'[2].data.projects[p].issuetypes) :
         /\ i = 1
         /\ resp'[2].data.projects[p].issuetypes[i].name = <<"B","u","g">>
         /\ ~resp'[2].data.projects[p].issuetypes[i].priority.present

ConcurrentCreateIssueProjectFailed ==
  /\ CreateIssueProjectFailed
  /\ ~resp'[1].error.hasErrorMessages

ConcurrentRequestFailed ==
  /\ RequestFailed
  /\ ~resp'[Len(resp')].error.hasErrorMessages

InitConcurrent ==
  /\ jiraConfig \in
       [url : {<<"https://jira.test">>},
        username : {<<"me">>},
        apiToken : {<<"secret">>},
        defaultProject : {<<"P","R","O","J">>}]
  /\ pc = "idle"
  /\ name = "none"
  /\ args = <<>>
  /\ sent = <<>>
  /\ resp = <<>>
  /\ delegated = NotDelegated
  /\ result = NoResult
  /\ codec = CodecOff
  /\ suspended = [i \in 1..(MaxInvocations - 1) |-> IdleContext]

NextConcurrent ==
  \/ ConcurrentCallTransitionIssue
  \/ ConcurrentTransitionIssueFetched
  \/ TransitionIssueApplied
  \/ ConcurrentCallCreateIssue
  \/ ConcurrentCreateIssueProjectFailed
  \/ CreateIssueProjectFetched
  \/ ConcurrentCreateIssueMetaFetched
  \/ CreateIssueCreated
  \/ ConcurrentRequestFailed
  \/ Return
  \/ Switch

SpecConcurrent == InitConcurrent /\ [][NextConcurrent]_vars

-----------------------------------------------------------------------------
(* Properties.                                                             *)

InCreateIssue == name = "jira_create_issue"
InUpdateIssue == name = "jira_update_issue"
InTransitionIssue == name = "jira_transition_issue"

NoRequestOf(method) == \A i \in 1..Len(sent) : sent[i].method # method

\* the issue types of the creation metadata received, once createIssue has
\* received a metadata response that holds the project
MetaReceived ==
  /\ InCreateIssue
  /\ Len(resp) >= 2
  /\ resp[2].ok
  /\ resp[2].data.projects # <<>>

ReceivedTypes == resp[2].data.projects[1].issuetypes

NoTypeMatches ==
  \A i \in 1..Len(ReceivedTypes) :
    ToLowerCase(ReceivedTypes[i].name) # ToLowerCase(IssueTypeOf(args))

\* C1: a create_issue invocation whose requested issue-type name matches,
\* ignoring case, none of the issue types of the metadata received has
\* failed with the "Issue type ... not found" failure, which carries the
\* requested name and the name of every issue type received, and it has sent
\* no POST.
C1_IssueTypeNotFound ==
  (MetaReceived /\ NoTypeMatches) =>
    /\ pc = "done"
    /\ result.status = "error"
    /\ Contains(result.text,
                <<"Issue type \"">> \o IssueTypeOf(args) \o <<"\" not found. Available types: ">>)
    /\ \A i \in 1..Len(ReceivedTypes) :
         Contains(result.text, ReceivedTypes[i].name)
    /\ NoRequestOf("POST")

C1_Witness ==
  /\ MetaReceived /\ NoTypeMatches
  /\ Len(ReceivedTypes) = 2
  /\ ReceivedTypes[1].name # ReceivedTypes[2].name
  /\ args.issueType = <<"E","p","i","c">>
  /\ result.status = "error"

\* the transitions received, once transitionIssue has received them
TransitionsReceived ==
  /\ InTransitionIssue
  /\ Len(resp) >= 1
  /\ resp[1].ok

ReceivedTransitions == resp[1].data.transitions

NoStatusMatches ==
  /\ args.status # Absent
  /\ \A i \in 1..Len(ReceivedTransitions) :
       ToLowerCase(ReceivedTransitions[i].to.name) # ToLowerCase(args.status)

\* C2: a transition_issue invocation whose requested status matches,
\* ignoring case, the destination-status name of none of the transitions
\* received has failed with the "Status ... not available" failure, which
\* carries the requested name and every destination name received, and it
\* has sent no POST.
C2_TransitionNotAvailable ==
  (TransitionsReceived /\ NoStatusMatches) =>
    /\ pc = "done"
    /\ result.status = "error"
    /\ Contains(result.text,
                <<"Status \"">> \o args.status
                  \o <<"\" not available. Available statuses: ">>)
    /\ \A i \in 1..Len(ReceivedTransitions) :
         Contains(result.text, ReceivedTransitions[i].to.name)
    /\ NoRequestOf("POST")

C2_Witness ==
  /\ TransitionsReceived /\ NoStatusMatches
  /\ Len(ReceivedTransitions) = 2
  /\ ReceivedTransitions[1].to.name # ReceivedTransitions[2].to.name
  /\ result.status = "error"

OnlyIssueKey ==
  /\ InUpdateIssue
  /\ args.summary = Absent /\ args.description = Absent
  /\ args.assignee = Absent /\ args.priority = Absent
  /\ args.labels = NoLabels

\* C3: update_issue called with none of summary, description, assignee,
\* priority, labels sends no request at all and returns success.
C3_UpdateNothing ==
  OnlyIssueKey => (sent = <<>> /\ pc = "done" /\ result.status = "ok")

C3_Witness == OnlyIssueKey /\ pc = "done" /\ result.status = "ok"

\* the issue type createIssue resolved, once it has resolved one
TypeResolved == MetaReceived /\ ~NoTypeMatches

ResolvedType ==
  ReceivedTypes[CHOOSE i \in 1..Len(ReceivedTypes) :
    /\ ToLowerCase(ReceivedTypes[i].name) = ToLowerCase(IssueTypeOf(args))
    /\ \A j \in 1..(i-1) :
         ToLowerCase(ReceivedTypes[j].name) # ToLowerCase(IssueTypeOf(args))]

\* the requested priority is a name and equals, ignoring case, the name of
\* no allowed value of the resolved type's priority field
PriorityUnmatched ==
  /\ TypeResolved
  /\ Truthy(PriorityOf(args))
  /\ ResolvedType.priority.present
  /\ \A i \in 1..Len(ResolvedType.priority.allowedValues) :
       ToLowerCase(ResolvedType.priority.allowedValues[i].name)
         # ToLowerCase(PriorityOf(args))

\* the run of tokens of text between the token label and the next "\n"
LineAfter(text, label) ==
  LET k == CHOOSE i \in 1..Len(text) : text[i] = label
      e == CHOOSE j \in (k+1)..Len(text) :
             text[j] = "\n" /\ \A m \in (k+1)..(j-1) : text[m] # "\n"
  IN SubSeq(text, k + 1, e - 1)

\* C4: create_issue with a priority name matching no allowed value of the
\* resolved type still sends the creation request, with no priority key in
\* its fields; the invocation ends in success exactly when the tracker
\* accepts that request, and the success text names the priority by the
\* caller's string.
C4_UnmatchedPriorityOmitted ==
  PriorityUnmatched =>
    /\ Len(sent) = 3
    /\ sent[3].method = "POST"
    /\ sent[3].endpoint = <<"/issue">>
    /\ "priority" \notin DOMAIN sent[3].data.fields
    /\ pc \in {"create_post", "done"}
    /\ pc = "done" =>
         /\ Len(resp) = 3
         /\ result.status = "ok" <=> resp[3].ok
         /\ resp[3].ok =>
              LineAfter(result.text, "Priority: ") = PriorityOf(args)

C4_Witness ==
  /\ PriorityUnmatched
  /\ ResolvedType.priority.allowedValues # <<>>
  /\ args.priority = <<"U","r","g","e","n","t">>
  /\ pc = "done"
  /\ result.status = "ok"

\* a minimal create_issue call that resolved a type without priority field
MinimalCreate ==
  /\ TypeResolved
  /\ args.project # Absent /\ args.summary # Absent
  /\ args.description = Absent /\ args.assignee = Absent
  /\ args.labels = NoLabels
  /\ ~ResolvedType.priority.present

\* C5: create_issue with project P, summary S, a type name resolving to an
\* entry with id T that declares no priority field, and no description,
\* assignee or labels, sends the fields {project:{key:P}, summary:S,
\* issuetype:{id:T}} and nothing else, and does not fail unless the tracker
\* rejects the creation.
C5_MinimalPayload ==
  MinimalCreate =>
    /\ Len(sent) = 3
    /\ sent[3].method = "POST"
    /\ sent[3].data.fields = [project |-> [key |-> args.project],
                              summary |-> args.summary,
                              issuetype |-> [id |-> ResolvedType.id]]
    /\ pc = "done" => (result.status = "ok" <=> resp[3].ok)

C5_Witness ==
  /\ MinimalCreate
  /\ args.issueType = <<"b","u","g">>
  /\ args.priority = Absent
  /\ ResolvedType.id = "10004"
  /\ pc = "done"
  /\ result.status = "ok"

InGetProjectIssues == name = "jira_get_project_issues"

OrderByCreated ==
  <<" ","O","R","D","E","R"," ","B","Y"," ",
    "c","r","e","a","t","e","d"," ","D","E","S","C">>

\* C6: get_project_issues with project key K and a status S calls
\* searchIssues with the query  project = K AND status = "S" ORDER BY
\* created DESC,  S put in as it is; without a status (left out, or empty)
\* the query is  project = K ORDER BY created DESC;  maxResults is handed
\* on as given, 50 when left out.
C6_ProjectIssuesQuery ==
  InGetProjectIssues =>
    /\ delegated.called
    /\ delegated.jql =
         IF args.status # Absent /\ args.status # <<>>
         THEN <<"p","r","o","j","e","c","t"," ","="," ">> \o args.projectKey
                \o <<" ","A","N","D"," ","s","t","a","t","u","s",
                     " ","="," ","\"">>
                \o args.status \o <<"\"">> \o OrderByCreated
         ELSE <<"p","r","o","j","e","c","t"," ","="," ">> \o args.projectKey
                \o OrderByCreated
    /\ delegated.maxResults =
         IF args.maxResults.t = "undef" THEN Num(50) ELSE args.maxResults
    /\ Contains(sent[1].endpoint,
                <<"&maxResults=", ToString(delegated.maxResults.v)>>)

C6_Witness ==
  /\ InGetProjectIssues
  /\ args.status = <<"a","\"","b">>
  /\ args.maxResults = Num(5)
  /\ pc = "done"
  /\ result.status = "ok"

RoundTripped ==
  /\ codec.pc = "decoded"
  /\ codec.input.t = "str"
  /\ codec.doc = Doc(codec.input.v)

\* C7 as stated: decoding the document emitted for a non-empty text s
\* returns exactly s.
C7_RoundTrip ==
  RoundTripped => (~codec.out.threw /\ codec.out.v = codec.input.v)

\* C7 amended: decoding the document emitted for a non-empty text s that
\* neither starts nor ends with whitespace returns exactly s.
C7_RoundTripTrimmed ==
  (/\ RoundTripped
   /\ ~IsWhitespace(codec.input.v[1])
   /\ ~IsWhitespace(codec.input.v[Len(codec.input.v)]))
    => (~codec.out.threw /\ codec.out.v = codec.input.v)

C7_Witness ==
  /\ RoundTripped
  /\ codec.input.v = <<"a", " ", "b">>
  /\ codec.out.v = <<"a", " ", "b">>

\* C8: decode never throws: whatever the shape of its input, it returns a
\* text.
C8_DecodeNeverThrows ==
  codec.pc = "decoded" => ~codec.out.threw

\* C9: create_issue without project or without summary fails before any
\* request is sent.
C9_RequiredArguments ==
  (InCreateIssue /\ (args.project = Absent \/ args.summary = Absent)) =>
    /\ sent = <<>>
    /\ pc = "done"
    /\ result.status = "error"

ProjectFetchFailed == InCreateIssue /\ Len(resp) >= 1 /\ ~resp[1].ok

\* C10: when the project fetch of create_issue fails, the invocation has
\* failed with the "Project ... not found or not accessible" failure
\* carrying the project key, and has sent neither the metadata fetch nor
\* the creation request.
C10_ProjectNotFound ==
  ProjectFetchFailed =>
    /\ pc = "done"
    /\ result.status = "error"
    /\ Contains(result.text,
                <<"Project ">> \o Interp(args.project)
                  \o <<" not found or not accessible">>)
    /\ Len(sent) = 1
    /\ Len(resp) = 1

C10_Witness ==
  /\ ProjectFetchFailed
  /\ args.project = ProjectKey
  /\ resp[1].error.hasErrorMessages
  /\ result.status = "error"

\* transitionIssue fetched the transitions, found a match, posted the
\* transition, and that request was rejected
TransitionPostFailed ==
  /\ InTransitionIssue
  /\ Len(resp) = 2
  /\ resp[1].ok
  /\ ~resp[2].ok

\* C11: when the transition-apply request of transition_issue is rejected
\* after a successful fetch and match, the invocation has ended in a failure
\* made from that rejection (its errorMessages when the response has them,
\* its message otherwise), never in success.
C11_TransitionPostFailureSurfaces ==
  TransitionPostFailed =>
    /\ pc = "done"
    /\ result.status = "error"
    /\ result.code = "InternalError"
    /\ Len(sent) = 2
    /\ sent[2].method = "POST"
    /\ \A i \in 1..Len(resp[2].error.errorMessages) :
         Contains(result.text, resp[2].error.errorMessages[i])
    /\ ~resp[2].error.hasErrorMessages =>
         Contains(result.text, resp[2].error.message)

C11_Witness ==
  /\ TransitionPostFailed
  /\ resp[2].error.errorMessages # <<>>
  /\ args.status = <<"d","o","n","e">>
  /\ Len(resp[1].data.transitions) = 2
  /\ result.status = "error"

\* the fields update_issue was given a value for: a non-empty text, or an
\* array of labels (empty or not)
SuppliedFields ==
  {k \in {"summary", "description", "assignee", "priority"} :
     args[k] # Absent /\ args[k] # <<>>}
    \cup (IF args.labels.t = "arr" THEN {"labels"} ELSE {})

\* C12: the payload of update_issue holds the key of each of summary,
\* description, assignee, priority, labels exactly when the caller supplied
\* a value for it, and a payload is sent exactly when some field was
\* supplied.
C12_UpdateOnlySupplied ==
  InUpdateIssue =>
    /\ (sent = <<>>) <=> (SuppliedFields = {})
    /\ sent # <<>> =>
         /\ sent[1].method = "PUT"
         /\ DOMAIN sent[1].data.fields = SuppliedFields

C12_Witness ==
  /\ InUpdateIssue
  /\ SuppliedFields = {"description", "labels"}
  /\ args.labels = Arr(<<>>)
  /\ args.summary = <<>>
  /\ pc = "done"
  /\ result.status = "ok"

\* C13: an update_issue invocation sends at most one request, a PUT to the
\* issue, never a fetch; a priority supplied is in its fields by name, as
\* the caller wrote it.
C13_UpdateSingleWrite ==
  InUpdateIssue =>
    /\ Len(sent) <= 1
    /\ \A i \in 1..Len(sent) :
         /\ sent[i].method = "PUT"
         /\ sent[i].endpoint = <<"/issue/">> \o args.issueKey
    /\ (args.priority # Absent /\ args.priority # <<>>) =>
         /\ Len(sent) = 1
         /\ "priority" \in DOMAIN sent[1].data.fields
         /\ sent[1].data.fields.priority = [name |-> args.priority]

C13_Witness ==
  /\ InUpdateIssue
  /\ args.priority = <<"U","r","g","e","n","t">>
  /\ args.status # Absent
  /\ Len(sent) = 1
  /\ pc = "done"
  /\ result.status = "ok"

\* C14: in every invocation no request is sent twice, and a rejected request
\* is the last one of its invocation, which has ended in a failure.
C14_NoRetryNoSwallow ==
  /\ Len(resp) <= Len(sent)
  /\ Len(sent) <= Len(resp) + 1
  /\ \A i, j \in 1..Len(sent) :
       i < j => <<sent[i].method, sent[i].endpoint>>
                  # <<sent[j].method, sent[j].endpoint>>
  /\ \A i \in 1..Len(resp) :
       ~resp[i].ok =>
         /\ i = Len(resp)
         /\ Len(sent) = Len(resp)
         /\ pc = "done"
         /\ result.status = "error"

C14_Witness ==
  /\ InCreateIssue
  /\ Len(resp) = 3
  /\ ~resp[3].ok
  /\ ~resp[3].error.hasErrorMessages
  /\ pc = "done"
  /\ result.status = "error"

ReadOnlyTools ==
  {"jira_search", "jira_get_issue", "jira_get_project_info",
   "jira_get_project_issues", "jira_get_transitions"}

\* C15: whatever the arguments and the responses, every request of a
\* read-only tool (search, get issue, project info, project issues, get
\* transitions) is a GET without a body.
C15_ReadOnlyToolsOnlyGet ==
  name \in ReadOnlyTools =>
    \A i \in 1..Len(sent) :
      sent[i].method = "GET" /\ sent[i].data = NoData

C15_Witness ==
  /\ name = "jira_search"
  /\ Len(sent) = 1
  /\ Len(resp) = 1
  /\ resp[1].ok
  /\ resp[1].data.issues # <<>>
  /\ result.status = "ok"

DocumentedTools ==
  {"search_issues", "get_issue", "create_issue", "update_issue",
   "add_comment", "get_project_info", "transition_issue",
   "get_project_issues", "get_transitions"}

\* C16: a tool call under one of the documented tool names is dispatched to
\* its operation, not rejected as an unknown tool.
C16_DocumentedToolsDispatched ==
  (name \in DocumentedTools /\ pc = "done") =>
    ~Contains(result.text, <<"Unknown tool: ">>)

\* C17: an update_issue invocation given a status that ends in success has
\* asked the tracker for a transition of the issue.
C17_UpdateStatusTransitions ==
  (InUpdateIssue /\ args.status # Absent /\ pc = "done"
     /\ result.status = "ok") =>
    \E i \in 1..Len(sent) :
      /\ sent[i].method = "POST"
      /\ sent[i].endpoint = <<"/issue/">> \o args.issueKey
                              \o <<"/transitions">>

\* every invocation in flight, the running one first
Invocations == <<Context>> \o suspended

\* two invocations called alike and answered alike have sent the same
\* requests, stand at the same point and hold the same result
Independent ==
  \A i, j \in 1..Len(Invocations) :
    (/\ Invocations[i].name = Invocations[j].name
     /\ Invocations[i].args = Invocations[j].args
     /\ Invocations[i].resp = Invocations[j].resp)
      => Invocations[i] = Invocations[j]

\* C18: however the runs between awaits of concurrent invocations interleave,
\* what an invocation sends and returns is determined by its own tool name,
\* arguments and remote responses alone (so it is what the invocation does
\* when it runs with no other in flight), and no step changes the connection
\* config the constructor stored.
C18_InvocationsIndependent ==
  /\ []Independent
  /\ [][jiraConfig' = jiraConfig]_vars

\* one invocation has transitioned the issue, a second one called and
\* answered alike is suspended with the same outcome, and a createIssue is
\* suspended between its requests
C18_Witness ==
  /\ InTransitionIssue /\ pc = "done" /\ result.status = "ok"
  /\ Len(sent) = 2
  /\ \E i, j \in 1..Len(suspended) :
       /\ i # j
       /\ suspended[i] = Context
       /\ suspended[j].name = "jira_create_issue"
       /\ suspended[j].pc \in {"create_meta", "create_post"}

\* the fields of a payload carry no description for an absent or empty
\* description, and otherwise a document of one paragraph of one text node
\* holding the description
DescriptionSent(fields, description) ==
  IF description = Absent \/ description = <<>>
  THEN "description" \notin DOMAIN fields
  ELSE /\ "description" \in DOMAIN fields
       /\ fields.description.type = "doc"
       /\ fields.description.version = 1
       /\ Len(fields.description.content.v) = 1
       /\ fields.description.content.v[1].type = "paragraph"
       /\ Len(fields.description.content.v[1].content.v) = 1
       /\ fields.description.content.v[1].content.v[1].type = "text"
       /\ fields.description.content.v[1].content.v[1].text
            = Str(description)

\* C19: the issue-creating request of createIssue and the request of
\* updateIssue carry a description key exactly when the description argument
\* is a non-empty text, its value is then the encoded document, and
\* updateIssue never drops a non-empty description by sending nothing.
C19_DescriptionKey ==
  /\ (InCreateIssue /\ Len(sent) >= 3) =>
       DescriptionSent(sent[3].data.fields, args.description)
  /\ (InUpdateIssue /\ Len(sent) >= 1) =>
       DescriptionSent(sent[1].data.fields, args.description)
  /\ (InUpdateIssue /\ Len(sent) = 0) =>
       (args.description = Absent \/ args.description = <<>>)

\* an update whose description is empty (while its summary is not) was
\* written without a description key
C19_Witness ==
  /\ InUpdateIssue /\ pc = "done" /\ result.status = "ok"
  /\ args.description = <<>>
  /\ Len(sent) = 1
  /\ "description" \notin DOMAIN sent[1].data.fields

\* a node that is a paragraph with a content array
IsParagraph(c) == c.type = "paragraph" /\ c.content.t = "arr"

IsText(c) == c.type = "text"

\* a document as the tracker sends it: the content is an array of nodes, a
\* paragraph's content is absent or an array of nodes, and a text node's
\* text is a string
WellFormedDocument(d) ==
  /\ d.t = "obj" /\ d.type = "doc" /\ d.content.t = "arr"
  /\ \A i \in 1..Len(d.content.v) :
       LET c == d.content.v[i] IN
       /\ c.t = "obj"
       /\ c.type = "paragraph" =>
            /\ c.content.t \in {"undef", "arr"}
            /\ c.content.t = "arr" =>
                 \A k \in 1..Len(c.content.v) :
                   /\ c.content.v[k].t = "obj"
                   /\ IsText(c.content.v[k]) => c.content.v[k].text.t = "str"

\* the texts of the text children of a paragraph, run together
TextOfParagraph(p) ==
  LET texts == SelectSeq(p.content.v, IsText)
  IN Join([k \in 1..Len(texts) |-> texts[k].text.v], <<>>)

\* the paragraphs' texts joined by a newline
JoinedParagraphs(d) ==
  LET paragraphs == SelectSeq(d.content.v, IsParagraph)
  IN Join([i \in 1..Len(paragraphs) |-> TextOfParagraph(paragraphs[i])],
          <<"\n">>)

OrNoDescription(s) == IF s = <<>> THEN NoDescription ELSE s

DecodedDocument == codec.pc = "decoded" /\ WellFormedDocument(codec.doc)

\* C20 as stated: a document decodes to its paragraphs' texts joined by a
\* newline with only the trailing whitespace trimmed, or to "No description"
\* if that is empty.
C20_DecodeTrimsEnd ==
  DecodedDocument =>
    /\ ~codec.out.threw
    /\ codec.out.v = OrNoDescription(TrimEnd(JoinedParagraphs(codec.doc)))

\* C20 amended: a well-formed document decodes to the texts of its
\* paragraphs (those that have a content array) joined by a newline with the
\* whitespace at both ends trimmed, or to "No description" if that is empty.
C20_DecodeTrimsBothEnds ==
  DecodedDocument =>
    /\ ~codec.out.threw
    /\ codec.out.v = OrNoDescription(Trim(JoinedParagraphs(codec.doc)))

\* two paragraphs " a" and "b " were decoded to "a", newline, "b"
C20_Witness ==
  /\ DecodedDocument
  /\ Len(codec.doc.content.v) = 2
  /\ TextOfParagraph(codec.doc.content.v[1]) = <<" ", "a">>
  /\ codec.out.v = <<"a", "\n", "b">>

\* what the tracker (or the network layer) said about a rejected request:
\* the error messages of the response body if it lists any, the error's own
\* message otherwise
UnderlyingText(error) ==
  IF error.hasErrorMessages /\ error.errorMessages # <<>>
  THEN Join(error.errorMessages, <<",">>)
  ELSE error.message

\* C21: when a request is rejected, the invocation fails with a failure whose
\* text holds the underlying error text verbatim, also when the response
\* body's errorMessages is empty and when the request is createIssue's
\* project fetch.
C21_RemoteFailureVerbatim ==
  \A i \in 1..Len(resp) :
    ~resp[i].ok =>
      /\ pc = "done"
      /\ result.status = "error"
      /\ Contains(result.text, UnderlyingText(resp[i].error))

\* the requests of a createIssue invocation, in the order it makes them
CreateRequests ==
  <<[method |-> "GET", endpoint |-> ProjectEndpoint(args.project)],
    [method |-> "GET", endpoint |-> CreateMetaEndpoint(args.project)],
    [method |-> "POST", endpoint |-> <<"/issue">>]>>

\* C22: what a createIssue invocation has sent is a beginning of: project
\* fetch, creation-metadata fetch, issue-creating POST.  The metadata fetch
\* is sent only after the project fetch resolved; the POST only after both
\* fetches resolved, the metadata held a project entry and the issue type
\* was found in it; and an invocation that failed before has sent no POST.
C22_CreateOrder ==
  InCreateIssue =>
    /\ Len(sent) <= 3
    /\ \A i \in 1..Len(sent) :
         /\ sent[i].method = CreateRequests[i].method
         /\ sent[i].endpoint = CreateRequests[i].endpoint
    /\ Len(sent) >= 2 => resp[1].ok
    /\ Len(sent) = 3 => (resp[1].ok /\ MetaReceived /\ ~NoTypeMatches)
    /\ (result.status = "error" /\ Len(resp) < 3) =>
         \A i \in 1..Len(sent) : sent[i].method # "POST"

\* an issue was created after the three requests in order
C22_Witness ==
  /\ InCreateIssue /\ pc = "done" /\ result.status = "ok"
  /\ Len(sent) = 3 /\ Len(resp) = 3
  /\ sent[1].method = "GET" /\ sent[2].method = "GET"
  /\ sent[3].method = "POST"

InAddComment == name = "jira_add_comment"

\* a document of exactly one paragraph of exactly one text node, whose text
\* is the string s when the caller gave one
SoleText(doc, s) ==
  /\ doc.type = "doc"
  /\ doc.content.t = "arr"
  /\ Len(doc.content.v) = 1
  /\ doc.content.v[1].type = "paragraph"
  /\ doc.content.v[1].content.t = "arr"
  /\ Len(doc.content.v[1].content.v) = 1
  /\ doc.content.v[1].content.v[1].type = "text"
  /\ s # Absent => doc.content.v[1].content.v[1].text = Str(s)

\* C23: the description of createIssue's creation request, the description
\* of updateIssue's request and the body of addComment's request are each a
\* document of exactly one paragraph holding exactly one text node, and the
\* text of that node is the caller's description or comment, unchanged.
C23_EmittedDocuments ==
  /\ (InCreateIssue /\ Len(sent) = 3
        /\ "description" \in DOMAIN sent[3].data.fields) =>
       SoleText(sent[3].data.fields.description, args.description)
  /\ (InUpdateIssue /\ Len(sent) = 1
        /\ "description" \in DOMAIN sent[1].data.fields) =>
       SoleText(sent[1].data.fields.description, args.description)
  /\ (InAddComment /\ Len(sent) = 1) =>
       SoleText(sent[1].data.body, args.comment)

\* a comment with markup characters and whitespace at both ends was posted
C23_Witness ==
  /\ InAddComment /\ pc = "done" /\ result.status = "ok"
  /\ args.comment = <<" ", "*", "x", "*", "\n">>
  /\ sent[1].data.body.content.v[1].content.v[1].text
       = Str(<<" ", "*", "x", "*", "\n">>)

\* the allowed values of the resolved type's priority field
AllowedPriorities == ResolvedType.priority.allowedValues

\* C24: when the requested type name equals, ignoring case, the name of an
\* issue type received, the creation request carries the id of the first such
\* type; and when the requested priority equals, ignoring case, the name of
\* an allowed priority value of that type, the request's priority is that
\* value's id and nothing else.
C24_ResolvedIds ==
  TypeResolved =>
    /\ Len(sent) = 3
    /\ sent[3].data.fields.issuetype = [id |-> ResolvedType.id]
    /\ \A k \in 1..Len(AllowedPriorities) :
         (/\ ResolvedType.priority.present
          /\ Truthy(PriorityOf(args))
          /\ ToLowerCase(AllowedPriorities[k].name)
               = ToLowerCase(PriorityOf(args)))
           => /\ "priority" \in DOMAIN sent[3].data.fields
              /\ sent[3].data.fields.priority
                   = [id |-> AllowedPriorities[k].id]

\* "bug" was asked for where the tracker lists BUG before Bug, with priority
\* "high" where High is allowed: the issue was created as type 10005 with
\* priority 1
C24_Witness ==
  /\ TypeResolved
  /\ args.issueType = <<"b","u","g">>
  /\ Len(ReceivedTypes) = 2
  /\ ReceivedTypes[1].name = <<"B","U","G">>
  /\ ReceivedTypes[2].name = <<"B","u","g">>
  /\ args.priority = <<"h","i","g","h">>
  /\ sent[3].data.fields.issuetype = [id |-> "10005"]
  /\ "priority" \in DOMAIN sent[3].data.fields
  /\ sent[3].data.fields.priority = [id |-> "1"]
  /\ pc = "done" /\ result.status = "ok"

\* the first transition received whose destination status is named as
\* requested, ignoring case
MatchedTransition ==
  ReceivedTransitions[CHOOSE i \in 1..Len(ReceivedTransitions) :
    /\ ToLowerCase(ReceivedTransitions[i].to.name) = ToLowerCase(args.status)
    /\ \A j \in 1..(i-1) :
         ToLowerCase(ReceivedTransitions[j].to.name)
           # ToLowerCase(args.status)]

\* C25: a transitionIssue invocation that ended in success has sent exactly
\* two requests, the transitions fetch of the issue and then a POST to the
\* same endpoint carrying the id of the first transition received whose
\* destination-status name equals the requested status ignoring case, and
\* both were answered successfully.
C25_TransitionTwoRequests ==
  (InTransitionIssue /\ result.status = "ok") =>
    /\ Len(sent) = 2
    /\ sent[1].method = "GET"
    /\ sent[1].endpoint = TransitionsEndpoint(args.issueKey)
    /\ sent[2].method = "POST"
    /\ sent[2].endpoint = TransitionsEndpoint(args.issueKey)
    /\ Len(resp) = 2
    /\ resp[1].ok
    /\ resp[2].ok
    /\ ~NoStatusMatches
    /\ sent[2].data = [transition |-> [id |-> MatchedTransition.id]]

\* "done" was asked for where the tracker offers DONE before Done: the
\* issue was moved by transition 32
C25_Witness ==
  /\ InTransitionIssue /\ pc = "done" /\ result.status = "ok"
  /\ args.status = <<"d","o","n","e">>
  /\ Len(ReceivedTransitions) = 2
  /\ ReceivedTransitions[1].to.name = <<"D","O","N","E">>
  /\ ReceivedTransitions[2].to.name = <<"D","o","n","e">>
  /\ sent[2].data = [transition |-> [id |-> "32"]]

\* C26: a call of a tool the handler has no case for has failed with error
\* code MethodNotFound and has sent no request.
C26_UnknownToolMethodNotFound ==
  (pc = "done" /\ name \notin KnownTools) =>
    /\ result.status = "error"
    /\ result.code = "MethodNotFound"
    /\ sent = <<>>

====
